---- MODULE Spec2Model ----
(***************************************************************************)
(* Model of the `class` attribute macro (src/macros/src/lib.rs): expansion *)
(* of one impl block of a node (expand, parse_self, process_const), the    *)
(* setter it generates, and the lazily cached default of a generated key.  *)
(***************************************************************************)
EXTENDS Integers, Sequences, FiniteSets, TLC

\* Total size of a declaration: one per item plus one per attribute.
MaxSize == 4

----------------------------------------------------------------------------
(* Identifiers and strings are sequences of characters.                    *)

UpperChars == {"A", "B", "D", "E", "F", "G", "I", "L", "P", "T"}

\* char::to_lowercase on the characters used here.
ToLowerChar(c) ==
    CASE c = "A" -> "a" [] c = "B" -> "b" [] c = "D" -> "d" [] c = "E" -> "e"
      [] c = "F" -> "f" [] c = "G" -> "g" [] c = "I" -> "i" [] c = "L" -> "l"
      [] c = "P" -> "p" [] c = "T" -> "t" [] OTHER -> c

\* str::replace("_", "-")
ReplaceUnderscore(s) == [k \in 1..Len(s) |-> IF s[k] = "_" THEN "-" ELSE s[k]]

\* str::to_lowercase
ToLowercase(s) == [k \in 1..Len(s) |-> ToLowerChar(s[k])]

\* name.to_string().replace("_", "-").to_lowercase()
ArgName(ident) == ToLowercase(ReplaceUnderscore(ident))

\* Property identifiers used in declarations.
PropIdents == { <<"F", "I", "L", "L">>, <<"T", "o", "p", "_", "_", "E", "_">> }

----------------------------------------------------------------------------
(* The input: an impl block.                                               *)

\* Attributes: the path and, for fold, the tokens of its argument.
\* "f" and "g" parse as expressions, "" (nothing to parse) does not.
FoldArgs == {"f", "g", ""}
Attrs ==
    { [path |-> "fold", arg |-> a] : a \in FoldArgs }
      \cup { [path |-> p, arg |-> ""] : p \in {"shorthand", "variadic", "skip", "doc"} }

RECURSIVE AttrSeqs(_)
AttrSeqs(n) ==
    IF n = 0 THEN { <<>> }
    ELSE { <<a>> \o s : a \in Attrs, s \in AttrSeqs(n - 1) }

ConstItem(ident, attrs) == [kind |-> "const", ident |-> ident, attrs |-> attrs]
MethodItem(name) == [kind |-> "method", ident |-> name, attrs |-> <<>>]
\* An associated type or a macro invocation in the impl block.
OtherItem == [kind |-> "type", ident |-> <<>>, attrs |-> <<>>]

MethodNames == { <<"construct">>, <<"set">>, <<"show">> }

ItemsOfSize(w) ==
    { ConstItem(id, as) : id \in PropIdents, as \in AttrSeqs(w - 1) }
      \cup (IF w = 1 THEN { MethodItem(m) : m \in MethodNames } \cup { OtherItem }
            ELSE {})

RECURSIVE DeclsOfSize(_)
DeclsOfSize(w) ==
    IF w = 0 THEN { <<>> }
    ELSE UNION { { <<it>> \o d : it \in ItemsOfSize(k), d \in DeclsOfSize(w - k) }
                 : k \in 1..w }

Decls == UNION { DeclsOfSize(w) : w \in 0..MaxSize }

\* Self types: `&Foo` (not a path), `Foo`, `a::Foo<'x, T>`.
TypeArg(n) == [kind |-> "type", name |-> n]
LifetimeArg(n) == [kind |-> "lifetime", name |-> n]
PathType(segs, generic_args) ==
    [kind |-> "path", segments |-> segs, args |-> generic_args]
RefType(segs) == [kind |-> "reference", segments |-> segs, args |-> <<>>]

SelfTypes ==
    { RefType(<<"Foo">>),
      PathType(<<"Foo">>, <<>>),
      PathType(<<"a", "Foo">>, << LifetimeArg("x"), TypeArg("T") >>) }

----------------------------------------------------------------------------
(* State.                                                                  *)

VARIABLES
    \* expand
    self_ty,        \* impl_block.self_ty
    decl,           \* impl_block.items as written
    pc,             \* position in expand
    idx,            \* index of the next item of the loop
    self_name,      \* parse_self: name of the last path segment
    self_args,      \* parse_self: generic type arguments
    properties,     \* Vec<Property>
    key_modules,    \* Vec<syn::ItemMod>
    items,          \* impl_block.items after std::mem::take
    construct,      \* Option<method>: index of the item in decl, 0 for None
    set,            \* Option<method>: index of the item in decl, 0 for None
    result,         \* what class() returns
    \* two expansions side by side: the namespaces of their keys
    owners,         \* the self types of two impl blocks
    idents,         \* a property constant of each
    key_paths,      \* the path of the generated Key of each, <<>> before
    \* a run of the generated setter
    sprops,         \* the properties the setter was generated from
    sets,           \* its statements
    sidx,           \* index of the statement being run
    spc,            \* position in the statement
    args,           \* Args
    styles,         \* StyleMap
    resolved,       \* the Option passed to set_opt
    entry,          \* args and styles when the statement was entered
    \* default() and default_ref() of one generated key, called by threads
    lazy,           \* the static LAZY
    th,             \* per thread: position, returned instance, call count
    instances,      \* number of instances the default expression has built
    ref_evals,      \* evaluations of the default expression for default_ref
    refs,           \* what the default_ref calls returned
    defaults        \* what the default calls returned, in order

expandVars ==
    << self_ty, decl, pc, idx, self_name, self_args, properties, key_modules,
       items, construct, set, result >>

keyVars == << owners, idents, key_paths >>

setterVars == << sprops, sets, sidx, spc, args, styles, resolved, entry >>

lazyVars == << lazy, th, instances, ref_evals, refs, defaults >>

vars == << expandVars, keyVars, setterVars, lazyVars >>

----------------------------------------------------------------------------
(* Error messages.                                                         *)

MalformedSelfType == "must be a path type"
UnexpectedMethod == "unexpected method"
UnexpectedItem == "unexpected item"
MissingConstructor == "missing constructor"
ConflictingAttributes == "shorthand and variadic are mutually exclusive"
\* syn's error for an attribute argument that is no expression.
MalformedFold == "expected expression"

----------------------------------------------------------------------------
(* parse_self                                                              *)

Last(s) == s[Len(s)]

RECURSIVE FilterTypeArgs(_)
FilterTypeArgs(generic_args) ==
    IF generic_args = <<>> THEN <<>>
    ELSE (IF Head(generic_args).kind = "type" THEN << Head(generic_args).name >> ELSE <<>>)
            \o FilterTypeArgs(Tail(generic_args))

parse_self(ty) ==
    IF ty.kind # "path"
    THEN [err |-> MalformedSelfType, self_name |-> "", self_args |-> <<>>]
    ELSE [err |-> "", self_name |-> Last(ty.segments),
          self_args |-> FilterTypeArgs(ty.args)]

\* A wrapper module that does not carry the name of the node.
WrapperModuleFixed(name) == << "node", "_types" >>

\* quote::format_ident!("{}_types", self_name)
WrapperModule(name) == << name, "_types" >>

----------------------------------------------------------------------------
(* process_const                                                           *)

\* attr.parse_args::<syn::Expr>() succeeds
ParsesAsExpr(arg) == arg \in {"f", "g"}

NewProperty(ident) ==
    [name |-> ident, shorthand |-> FALSE, variadic |-> FALSE, skip |-> FALSE]

\* The loop over the attributes: acc is (folder, property, item.attrs, error).
RECURSIVE AttrLoop(_, _)
AttrLoop(attrs, acc) ==
    IF attrs = <<>> THEN acc
    ELSE LET attr == Head(attrs) IN
         IF attr.path = "fold" THEN
             IF ParsesAsExpr(attr.arg)
             THEN AttrLoop(Tail(attrs), [acc EXCEPT !.folder = attr.arg])
             ELSE [acc EXCEPT !.err = MalformedFold]
         ELSE IF attr.path = "shorthand" THEN
             AttrLoop(Tail(attrs), [acc EXCEPT !.property.shorthand = TRUE])
         ELSE IF attr.path = "variadic" THEN
             AttrLoop(Tail(attrs), [acc EXCEPT !.property.variadic = TRUE])
         ELSE IF attr.path = "skip" THEN
             AttrLoop(Tail(attrs), [acc EXCEPT !.property.skip = TRUE])
         ELSE AttrLoop(Tail(attrs), [acc EXCEPT !.attrs = Append(@, attr)])

\* The marker emitted for every key.
NonfoldingAlways(folder) == TRUE

\* folder.is_none().then(...)
Nonfolding(folder) == folder = ""

\* The check with the wrong flag.
ConflictCheckSkip(property) == property.shorthand /\ property.skip

ConflictCheck(property) == property.shorthand /\ property.variadic

\* The generated `mod #module_name`.
KeyModule(item, name, key_args, folder) ==
    [ module_name |-> item.ident,
      NAME        |-> << name, "::", item.ident >>,
      key_args    |-> key_args,
      folder      |-> folder,
      nonfolding  |-> Nonfolding(folder) ]

RECURSIVE RetainNotFold(_)
RetainNotFold(attrs) ==
    IF attrs = <<>> THEN <<>>
    ELSE (IF Head(attrs).path = "fold" THEN <<>> ELSE << Head(attrs) >>)
            \o RetainNotFold(Tail(attrs))

NoModule ==
    [ module_name |-> <<>>, NAME |-> <<>>, key_args |-> <<>>, folder |-> "",
      nonfolding |-> FALSE ]

process_const(item, name, key_args) ==
    LET acc == AttrLoop(item.attrs,
                        [folder |-> "", property |-> NewProperty(item.ident),
                         attrs |-> <<>>, err |-> ""])
        failed(e) == [err |-> e, property |-> acc.property, module |-> NoModule,
                      item |-> item]
    IN  IF acc.err # "" THEN failed(acc.err)
        ELSE IF ConflictCheck(acc.property) THEN failed(ConflictingAttributes)
        ELSE [ err |-> "", property |-> acc.property,
               module |-> KeyModule(item, name, key_args, acc.folder),
               item |-> [kind |-> "const", ident |-> item.ident,
                         attrs |-> RetainNotFold(acc.attrs)] ]

----------------------------------------------------------------------------
(* expand                                                                  *)

\* The fallbacks of variadic and shorthand exchanged.
AlternativeSwapped(property) ==
    IF property.variadic THEN "find"
    ELSE IF property.shorthand THEN "all"
    ELSE "none"

\* The `alternative` tokens of one generated statement.
Alternative(property) ==
    IF property.variadic THEN "all"
    ELSE IF property.shorthand THEN "find"
    ELSE "none"

\* quote! { styles.set_opt(Self::#name, args.named(#string)? #alternative); }
SetStatement(property) ==
    [ key |-> property.name, string |-> ArgName(property.name),
      alternative |-> Alternative(property) ]

\* The statements without the filter on skip.
RECURSIVE SetsUnfiltered(_)
SetsUnfiltered(props) ==
    IF props = <<>> THEN <<>>
    ELSE << SetStatement(Head(props)) >> \o SetsUnfiltered(Tail(props))

\* properties.into_iter().filter(|p| !p.skip).map(...)
RECURSIVE Sets(_)
Sets(props) ==
    IF props = <<>> THEN <<>>
    ELSE (IF ~Head(props).skip THEN << SetStatement(Head(props)) >> ELSE <<>>)
            \o Sets(Tail(props))

\* set.unwrap_or_else(...): the method of the declaration, or the generated one.
SetMethod(s, props) ==
    IF s # 0 THEN [explicit |-> s, sets |-> <<>>]
    ELSE [explicit |-> 0, sets |-> Sets(props)]

NoOutput ==
    [ module |-> <<>>, items |-> <<>>, construct |-> 0,
      set |-> [explicit |-> 0, sets |-> <<>>], key_modules |-> <<>> ]

\* expand(..).unwrap_or_else(|err| err.to_compile_error()) for Err(e)
CompileError(e) == [status |-> "err", err |-> e, out |-> NoOutput]
Expansion(o) == [status |-> "ok", err |-> "", out |-> o]
NoResult == [status |-> "none", err |-> "", out |-> NoOutput]

ExpandInit ==
    /\ self_ty \in SelfTypes
    /\ decl \in Decls
    /\ pc = "parse_self"
    /\ idx = 1
    /\ self_name = ""
    /\ self_args = <<>>
    /\ properties = <<>>
    /\ key_modules = <<>>
    /\ items = <<>>
    /\ construct = 0
    /\ set = 0
    /\ result = NoResult

\* let (self_name, self_args) = parse_self(self_ty)?;
ParseSelf ==
    /\ pc = "parse_self"
    /\ LET r == parse_self(self_ty) IN
         IF r.err # ""
         THEN /\ result' = CompileError(r.err)
              /\ pc' = "done"
              /\ UNCHANGED << self_name, self_args >>
         ELSE /\ self_name' = r.self_name
              /\ self_args' = r.self_args
              /\ pc' = "items"
              /\ UNCHANGED result
    /\ UNCHANGED << self_ty, decl, idx, properties, key_modules, items,
                    construct, set >>
    /\ UNCHANGED << keyVars, setterVars, lazyVars >>

\* The loop going on after a property that failed, dropping the error.
ItemConstContinue ==
    /\ pc = "items" /\ idx <= Len(decl)
    /\ decl[idx].kind = "const"
    /\ LET r == process_const(decl[idx], self_name, self_args) IN
         IF r.err # ""
         THEN UNCHANGED << properties, key_modules, items >>
         ELSE /\ properties' = Append(properties, r.property)
              /\ key_modules' = Append(key_modules, r.module)
              /\ items' = Append(items, r.item)
    /\ idx' = idx + 1
    /\ UNCHANGED << pc, result >>
    /\ UNCHANGED << self_ty, decl, self_name, self_args, construct, set >>
    /\ UNCHANGED << keyVars, setterVars, lazyVars >>

\* syn::ImplItem::Const(mut item) => ...
ItemConst ==
    /\ pc = "items" /\ idx <= Len(decl)
    /\ decl[idx].kind = "const"
    /\ LET r == process_const(decl[idx], self_name, self_args) IN
         IF r.err # ""
         THEN /\ result' = CompileError(r.err)
              /\ pc' = "done"
              /\ UNCHANGED << idx, properties, key_modules, items >>
         ELSE /\ properties' = Append(properties, r.property)
              /\ key_modules' = Append(key_modules, r.module)
              /\ items' = Append(items, r.item)
              /\ idx' = idx + 1
              /\ UNCHANGED << pc, result >>
    /\ UNCHANGED << self_ty, decl, self_name, self_args, construct, set >>
    /\ UNCHANGED << keyVars, setterVars, lazyVars >>

\* The match on the method name without its last arm: other methods pass.
ItemMethodLenient ==
    /\ pc = "items" /\ idx <= Len(decl)
    /\ decl[idx].kind = "method"
    /\ construct' = IF decl[idx].ident = <<"construct">> THEN idx ELSE construct
    /\ set' = IF decl[idx].ident = <<"set">> THEN idx ELSE set
    /\ idx' = idx + 1
    /\ UNCHANGED << pc, result >>
    /\ UNCHANGED << self_ty, decl, self_name, self_args, properties,
                    key_modules, items >>
    /\ UNCHANGED << keyVars, setterVars, lazyVars >>

\* syn::ImplItem::Method(method) => match method.sig.ident ...
ItemMethod ==
    /\ pc = "items" /\ idx <= Len(decl)
    /\ decl[idx].kind = "method"
    /\ IF decl[idx].ident = <<"construct">>
       THEN /\ construct' = idx
            /\ idx' = idx + 1
            /\ UNCHANGED << set, pc, result >>
       ELSE IF decl[idx].ident = <<"set">>
       THEN /\ set' = idx
            /\ idx' = idx + 1
            /\ UNCHANGED << construct, pc, result >>
       ELSE /\ result' = CompileError(UnexpectedMethod)
            /\ pc' = "done"
            /\ UNCHANGED << construct, set, idx >>
    /\ UNCHANGED << self_ty, decl, self_name, self_args, properties,
                    key_modules, items >>
    /\ UNCHANGED << keyVars, setterVars, lazyVars >>

\* _ => return Err(Error::new(item.span(), "unexpected item"))
ItemOther ==
    /\ pc = "items" /\ idx <= Len(decl)
    /\ decl[idx].kind \notin {"const", "method"}
    /\ result' = CompileError(UnexpectedItem)
    /\ pc' = "done"
    /\ UNCHANGED << self_ty, decl, idx, self_name, self_args, properties,
                    key_modules, items, construct, set >>
    /\ UNCHANGED << keyVars, setterVars, lazyVars >>

\* The constructor check satisfied by a set method.
FinishSetSuffices ==
    /\ pc = "items" /\ idx > Len(decl)
    /\ IF construct = 0 /\ set = 0
       THEN result' = CompileError(MissingConstructor)
       ELSE result' = Expansion(
                [ module |-> WrapperModule(self_name),
                  items |-> items,
                  construct |-> construct,
                  set |-> SetMethod(set, properties),
                  key_modules |-> key_modules ])
    /\ pc' = "done"
    /\ UNCHANGED << self_ty, decl, idx, self_name, self_args, properties,
                    key_modules, items, construct, set >>
    /\ UNCHANGED << keyVars, setterVars, lazyVars >>

\* After the loop: the constructor check, the setter and the wrapper module.
Finish ==
    /\ pc = "items" /\ idx > Len(decl)
    /\ IF construct = 0
       THEN result' = CompileError(MissingConstructor)
       ELSE result' = Expansion(
                [ module |-> WrapperModule(self_name),
                  items |-> items,
                  construct |-> construct,
                  set |-> SetMethod(set, properties),
                  key_modules |-> key_modules ])
    /\ pc' = "done"
    /\ UNCHANGED << self_ty, decl, idx, self_name, self_args, properties,
                    key_modules, items, construct, set >>
    /\ UNCHANGED << keyVars, setterVars, lazyVars >>

----------------------------------------------------------------------------
(* The namespace of a generated key.                                       *)

\* Self types of impl blocks: `Foo`, `a::Foo`, `b::Bar<T>`, `Foo<'x>`, ...
OwnerTypes ==
    { PathType(pre \o << n >>, as) :
        pre \in { <<>>, <<"a">>, <<"b">> },
        n \in { "Foo", "Bar" },
        as \in { <<>>, << TypeArg("T") >>, << TypeArg("U") >>, << LifetimeArg("x") >> } }

\* The path of the Key of constant `ident` of an impl block for `ty`:
\* `mod #module { mod #module_name { pub struct Key<..> } }`.
KeyPath(ty, ident) ==
    << WrapperModule(parse_self(ty).self_name), ident, "Key" >>

KeyInit ==
    /\ owners \in OwnerTypes \X OwnerTypes
    /\ idents \in PropIdents \X PropIdents
    /\ key_paths = << <<>>, <<>> >>

\* The expansion of impl block n generates the key of its constant.
GenerateKey(n) ==
    /\ key_paths[n] = <<>>
    /\ key_paths' = [key_paths EXCEPT ![n] = KeyPath(owners[n], idents[n])]
    /\ UNCHANGED << owners, idents >>
    /\ UNCHANGED << expandVars, setterVars, lazyVars >>

----------------------------------------------------------------------------
(* The generated setter, run on an argument list and a style map.          *)

\* Number of arguments of a call.
MaxArgs == 3

None == [some |-> FALSE, value |-> <<>>, list |-> FALSE]
Some(v) == [some |-> TRUE, value |-> << v >>, list |-> FALSE]
SomeList(vs) == [some |-> TRUE, value |-> vs, list |-> TRUE]

\* Argument names of a call; <<>> marks a positional argument.
ArgNames == { <<>>, <<"f", "i", "l", "l">>, <<"t", "o", "p", "-", "-", "e", "-">> }

\* An argument: its name, whether its value casts to the property's value
\* type ("T") or not ("U"), and the identity v of its value.
RECURSIVE ArgLists(_)
ArgLists(n) ==
    IF n = 0 THEN { <<>> }
    ELSE ArgLists(n - 1) \cup
         { Append(l, [name |-> nm, ty |-> t, v |-> n]) :
             l \in { m \in ArgLists(n - 1) : Len(m) = n - 1 },
             nm \in ArgNames, t \in {"T", "U"} }

IsPositional(a) == a.name = <<>>
Castable(a) == a.ty = "T"

RECURSIVE Values(_)
Values(l) == IF l = <<>> THEN <<>> ELSE << Head(l).v >> \o Values(Tail(l))

\* Args::named: removes the arguments of that name, yields the last one, and
\* fails when a value does not cast.
ArgsNamed(a, name) ==
    LET hit(x) == x.name = name
        miss(x) == x.name # name
        found == SelectSeq(a, hit)
    IN  IF \E k \in DOMAIN found : ~Castable(found[k])
        THEN [err |-> TRUE, opt |-> None, args |-> a]
        ELSE [err |-> FALSE,
              opt |-> IF found = <<>> THEN None ELSE Some(found[Len(found)].v),
              args |-> SelectSeq(a, miss)]

\* Args::all: takes all remaining positional arguments.
ArgsAll(a) ==
    LET named(x) == ~IsPositional(x) IN
    [list |-> Values(SelectSeq(a, IsPositional)), args |-> SelectSeq(a, named)]

\* Args::find: takes the first positional argument of the value type.
ArgsFind(a) ==
    LET S == { k \in DOMAIN a : IsPositional(a[k]) /\ Castable(a[k]) } IN
    IF S = {} THEN [opt |-> None, args |-> a]
    ELSE LET k == CHOOSE i \in S : \A j \in S : i <= j IN
         [opt |-> Some(a[k].v),
          args |-> SubSeq(a, 1, k - 1) \o SubSeq(a, k + 1, Len(a))]

\* StyleMap::set_opt: inserts if there is a value.
SetOpt(map, key, opt) ==
    IF opt.some THEN Append(map, [key |-> key, value |-> opt.value, list |-> opt.list])
    ELSE map

\* What process_const lets through: never shorthand and variadic at once.
Properties ==
    { p \in [name : PropIdents, shorthand : BOOLEAN, variadic : BOOLEAN, skip : BOOLEAN] :
        ~ConflictCheck(p) }

PropertyLists ==
    { << p >> : p \in Properties }
      \cup { l \in Properties \X Properties : l[1].name # l[2].name }

OuterStyle == [key |-> <<"o", "u", "t", "e", "r">>, value |-> << 0 >>, list |-> FALSE]

SetterInit ==
    /\ sprops \in PropertyLists
    /\ sets = Sets(sprops)
    /\ sidx = 1
    /\ spc = "statement"
    /\ args \in ArgLists(MaxArgs)
    /\ styles \in { <<>>, << OuterStyle >> }
    /\ resolved = None
    /\ entry = [args |-> args, styles |-> styles]

\* args.named(#string)?
Named ==
    /\ spc = "statement" /\ sidx <= Len(sets)
    /\ entry' = [args |-> args, styles |-> styles]
    /\ LET r == ArgsNamed(args, sets[sidx].string) IN
         IF r.err
         THEN /\ spc' = "failed"
              /\ UNCHANGED << args, resolved >>
         ELSE /\ spc' = "alternative"
              /\ args' = r.args
              /\ resolved' = r.opt
    /\ UNCHANGED << sprops, sets, sidx, styles >>
    /\ UNCHANGED << expandVars, keyVars, lazyVars >>

\* #alternative: .or_else(..) on the result of named
OrElse ==
    /\ spc = "alternative"
    /\ IF resolved.some \/ sets[sidx].alternative = "none"
       THEN UNCHANGED << args, resolved >>
       ELSE IF sets[sidx].alternative = "all"
       THEN LET r == ArgsAll(args) IN
              /\ args' = r.args
              /\ resolved' = IF r.list # <<>> THEN SomeList(r.list) ELSE None
       ELSE LET r == ArgsFind(args) IN
              /\ args' = r.args
              /\ resolved' = r.opt
    /\ spc' = "set_opt"
    /\ UNCHANGED << sprops, sets, sidx, styles, entry >>
    /\ UNCHANGED << expandVars, keyVars, lazyVars >>

\* styles.set_opt(Self::#name, ..);
StylesSetOpt ==
    /\ spc = "set_opt"
    /\ styles' = SetOpt(styles, sets[sidx].key, resolved)
    /\ resolved' = None
    /\ sidx' = sidx + 1
    /\ spc' = "statement"
    /\ UNCHANGED << sprops, sets, args, entry >>
    /\ UNCHANGED << expandVars, keyVars, lazyVars >>

\* Ok(())
ReturnOk ==
    /\ spc = "statement" /\ sidx > Len(sets)
    /\ spc' = "ok"
    /\ UNCHANGED << sprops, sets, sidx, args, styles, resolved, entry >>
    /\ UNCHANGED << expandVars, keyVars, lazyVars >>

----------------------------------------------------------------------------
(* default() and default_ref() of one generated key.                       *)

\* Threads calling into the key, and calls each of them makes.
NumThreads == 2
MaxCalls == 2

Threads == 1..NumThreads

LazyInit ==
    /\ lazy = [state |-> "uninit", value |-> 0, init_taken |-> FALSE]
    /\ th = [t \in Threads |->
               [pc |-> "idle", calls |-> 0, after_init |-> FALSE, waited |-> FALSE]]
    /\ instances = 0
    /\ ref_evals = 0
    /\ refs = {}
    /\ defaults = <<>>

\* fn default() -> Self::Value { #default }
CallDefault(t) ==
    /\ th[t].pc = "idle" /\ th[t].calls < MaxCalls
    /\ instances' = instances + 1
    /\ defaults' = Append(defaults, instances + 1)
    /\ th' = [th EXCEPT ![t].calls = @ + 1]
    /\ UNCHANGED << lazy, ref_evals, refs >>
    /\ UNCHANGED << expandVars, keyVars, setterVars >>

\* default_ref() building its value on every call instead of using LAZY.
CallDefaultRefFresh(t) ==
    /\ th[t].pc = "idle" /\ th[t].calls < MaxCalls
    /\ instances' = instances + 1
    /\ ref_evals' = ref_evals + 1
    /\ refs' = refs \cup { instances + 1 }
    /\ th' = [th EXCEPT ![t].calls = @ + 1]
    /\ UNCHANGED << lazy, defaults >>
    /\ UNCHANGED << expandVars, keyVars, setterVars >>

\* fn default_ref() -> &'static Self::Value { static LAZY ..; &*LAZY }:
\* the call dereferences the one static of the key.
CallDefaultRef(t) ==
    /\ th[t].pc = "idle" /\ th[t].calls < MaxCalls
    /\ th' = [th EXCEPT ![t] = [pc |-> "force", calls |-> @.calls + 1,
                                after_init |-> lazy.state = "init",
                                waited |-> FALSE]]
    /\ UNCHANGED << lazy, instances, ref_evals, refs, defaults >>
    /\ UNCHANGED << expandVars, keyVars, setterVars >>

\* Lazy::force on an initialized cell: returns the reference.
ForceReady(t) ==
    /\ th[t].pc = "force" /\ lazy.state = "init"
    /\ refs' = refs \cup { lazy.value }
    /\ th' = [th EXCEPT ![t].pc = "idle"]
    /\ UNCHANGED << lazy, instances, ref_evals, defaults >>
    /\ UNCHANGED << expandVars, keyVars, setterVars >>

\* Lazy::force on an empty cell: the first thread becomes the initializer.
ForceClaim(t) ==
    /\ th[t].pc = "force" /\ lazy.state = "uninit"
    /\ lazy' = [lazy EXCEPT !.state = "running"]
    /\ th' = [th EXCEPT ![t].pc = "closure"]
    /\ UNCHANGED << instances, ref_evals, refs, defaults >>
    /\ UNCHANGED << expandVars, keyVars, setterVars >>

\* Lazy::force while another thread initializes: the thread blocks.
ForceWait(t) ==
    /\ th[t].pc = "force" /\ lazy.state = "running"
    /\ th' = [th EXCEPT ![t].pc = "wait", ![t].waited = TRUE]
    /\ UNCHANGED << lazy, instances, ref_evals, refs, defaults >>
    /\ UNCHANGED << expandVars, keyVars, setterVars >>

\* The initializer is finished: a blocked thread looks at the cell again.
Wake(t) ==
    /\ th[t].pc = "wait" /\ lazy.state # "running"
    /\ th' = [th EXCEPT ![t].pc = "force"]
    /\ UNCHANGED << lazy, instances, ref_evals, refs, defaults >>
    /\ UNCHANGED << expandVars, keyVars, setterVars >>

\* The initializer takes the closure `|| #default`, which yields the value.
ClosureReturns(t) ==
    /\ th[t].pc = "closure" /\ ~lazy.init_taken
    /\ instances' = instances + 1
    /\ ref_evals' = ref_evals + 1
    /\ lazy' = [state |-> "init", value |-> instances + 1, init_taken |-> TRUE]
    /\ refs' = refs \cup { instances + 1 }
    /\ th' = [th EXCEPT ![t].pc = "idle"]
    /\ UNCHANGED defaults
    /\ UNCHANGED << expandVars, keyVars, setterVars >>

\* The initializer takes the closure, and the default expression panics.
ClosurePanics(t) ==
    /\ th[t].pc = "closure" /\ ~lazy.init_taken
    /\ ref_evals' = ref_evals + 1
    /\ lazy' = [lazy EXCEPT !.state = "uninit", !.init_taken = TRUE]
    /\ th' = [th EXCEPT ![t].pc = "panicked"]
    /\ UNCHANGED << instances, refs, defaults >>
    /\ UNCHANGED << expandVars, keyVars, setterVars >>

\* The closure was taken by an initializer that panicked: the cell is
\* poisoned and the call panics.
ClosureTaken(t) ==
    /\ th[t].pc = "closure" /\ lazy.init_taken
    /\ lazy' = [lazy EXCEPT !.state = "uninit"]
    /\ th' = [th EXCEPT ![t].pc = "panicked"]
    /\ UNCHANGED << instances, ref_evals, refs, defaults >>
    /\ UNCHANGED << expandVars, keyVars, setterVars >>

----------------------------------------------------------------------------
(* Specifications.                                                         *)

ExpandIdle ==
    /\ self_ty = PathType(<<"Foo">>, <<>>)
    /\ decl = <<>>
    /\ pc = "off"
    /\ idx = 1
    /\ self_name = ""
    /\ self_args = <<>>
    /\ properties = <<>>
    /\ key_modules = <<>>
    /\ items = <<>>
    /\ construct = 0
    /\ set = 0
    /\ result = NoResult

KeyIdle ==
    /\ owners = << PathType(<<"Foo">>, <<>>), PathType(<<"Foo">>, <<>>) >>
    /\ idents = << <<>>, <<>> >>
    /\ key_paths = << <<"off">>, <<"off">> >>

SetterIdle ==
    /\ sprops = <<>>
    /\ sets = <<>>
    /\ sidx = 1
    /\ spc = "off"
    /\ args = <<>>
    /\ styles = <<>>
    /\ resolved = None
    /\ entry = [args |-> <<>>, styles |-> <<>>]

LazyIdle ==
    /\ lazy = [state |-> "off", value |-> 0, init_taken |-> FALSE]
    /\ th = <<>>
    /\ instances = 0
    /\ ref_evals = 0
    /\ refs = {}
    /\ defaults = <<>>

\* class() on one impl block.
Init == ExpandInit /\ KeyIdle /\ SetterIdle /\ LazyIdle

Next == ParseSelf \/ ItemConst \/ ItemMethod \/ ItemOther \/ Finish

Spec == Init /\ [][Next]_vars

\* The keys of two impl blocks.
InitKey == ExpandIdle /\ KeyInit /\ SetterIdle /\ LazyIdle

NextKey == \E n \in {1, 2} : GenerateKey(n)

SpecKey == InitKey /\ [][NextKey]_vars

\* One call of the generated setter.
InitSetter == ExpandIdle /\ KeyIdle /\ SetterInit /\ LazyIdle

NextSetter == Named \/ OrElse \/ StylesSetOpt \/ ReturnOk

SpecSetter == InitSetter /\ [][NextSetter]_vars

\* Threads calling default() and default_ref() of one key.
InitLazy == ExpandIdle /\ KeyIdle /\ SetterIdle /\ LazyInit

NextLazy ==
    \E t \in Threads :
        \/ CallDefault(t) \/ CallDefaultRef(t)
        \/ ForceReady(t) \/ ForceClaim(t) \/ ForceWait(t) \/ Wake(t)
        \/ ClosureReturns(t) \/ ClosurePanics(t) \/ ClosureTaken(t)

SpecLazy == InitLazy /\ [][NextLazy]_vars

----------------------------------------------------------------------------
(* The declaration as written, described without running the expansion.    *)

HasAttr(it, p) == \E a \in DOMAIN it.attrs : it.attrs[a].path = p

IsConst(it) == it.kind = "const"
IsMethodNamed(it, n) == it.kind = "method" /\ it.ident = n
IsOtherMethod(it) ==
    it.kind = "method" /\ it.ident # <<"construct">> /\ it.ident # <<"set">>
IsOtherItem(it) == it.kind # "const" /\ it.kind # "method"

HasConflict(it) == IsConst(it) /\ HasAttr(it, "shorthand") /\ HasAttr(it, "variadic")
HasMalformedFold(it) ==
    IsConst(it) /\ \E a \in DOMAIN it.attrs :
                      it.attrs[a].path = "fold" /\ it.attrs[a].arg = ""

Offending(it) ==
    IsOtherItem(it) \/ IsOtherMethod(it) \/ HasConflict(it) \/ HasMalformedFold(it)

\* Index of the first offending item of a declaration, 0 if there is none.
FirstOffending(d) ==
    LET S == { k \in DOMAIN d : Offending(d[k]) } IN
    IF S = {} THEN 0 ELSE CHOOSE k \in S : \A j \in S : k <= j

Count(d, P(_)) == Cardinality({ k \in DOMAIN d : P(d[k]) })
IsConstruct(it) == IsMethodNamed(it, <<"construct">>)
IsSet(it) == IsMethodNamed(it, <<"set">>)

Done == pc = "done"
Failed(e) == result.status = "err" /\ result.err = e
PathSelf == self_ty.kind = "path"

----------------------------------------------------------------------------
(* C1 *)

\* C1 as claimed: every declaration (with a path self type) in which some
\* property constant carries both shorthand and variadic fails with
\* ConflictingAttributes, whatever its other attributes and items.
C1_Claimed ==
    (Done /\ PathSelf /\ \E k \in DOMAIN decl : HasConflict(decl[k]))
        => Failed(ConflictingAttributes)

\* C1 amended: a declaration with a property carrying both shorthand and
\* variadic never expands; the error is ConflictingAttributes when the self
\* type is a path, that property is the first offending item and none of its
\* fold arguments is malformed, whatever its other attributes and their order.
C1_Amended ==
    (Done /\ \E k \in DOMAIN decl : HasConflict(decl[k]))
        => /\ result.status = "err"
           /\ LET k == FirstOffending(decl) IN
                (PathSelf /\ HasConflict(decl[k]) /\ ~HasMalformedFold(decl[k]))
                    => Failed(ConflictingAttributes)

C1_Witness ==
    /\ Done /\ Failed(ConflictingAttributes)
    /\ LET it == decl[FirstOffending(decl)] IN
         /\ Len(it.attrs) = 3
         /\ it.attrs[1].path = "variadic"
         /\ it.attrs[2].path \in {"fold", "skip", "doc"}
         /\ it.attrs[3].path = "shorthand"

----------------------------------------------------------------------------
(* C2 *)

\* C2 as claimed: every declaration (with a path self type) without a method
\* named construct fails with MissingConstructor.
C2_Claimed ==
    (Done /\ PathSelf /\ Count(decl, IsConstruct) = 0)
        => Failed(MissingConstructor)

\* C2 amended: a declaration without a method named construct never expands;
\* the error is MissingConstructor when the self type is a path and no item
\* offends (every item is a property that passes attribute processing or a
\* method named set).
C2_Amended ==
    (Done /\ Count(decl, IsConstruct) = 0)
        => /\ result.status = "err"
           /\ (PathSelf /\ FirstOffending(decl) = 0) => Failed(MissingConstructor)

C2_Witness ==
    /\ Done /\ Failed(MissingConstructor)
    /\ Count(decl, IsConst) >= 1 /\ Count(decl, IsSet) = 1

----------------------------------------------------------------------------
(* C3 *)

\* C3 as claimed: every declaration (with a path self type) containing a
\* method named other than construct or set fails with UnexpectedMethod, and
\* one containing an item that is neither constant nor method fails with
\* UnexpectedItem.
C3_Claimed ==
    (Done /\ PathSelf) =>
        /\ (\E k \in DOMAIN decl : IsOtherMethod(decl[k])) => Failed(UnexpectedMethod)
        /\ (\E k \in DOMAIN decl : IsOtherItem(decl[k])) => Failed(UnexpectedItem)

\* C3 amended: a declaration containing a method named other than construct
\* or set, or an item that is neither constant nor method, never expands; the
\* error is UnexpectedMethod (UnexpectedItem) when the self type is a path
\* and that method (item) is the first offending item.
C3_Amended ==
    (Done /\ \E k \in DOMAIN decl : IsOtherMethod(decl[k]) \/ IsOtherItem(decl[k]))
        => /\ result.status = "err"
           /\ PathSelf =>
                LET k == FirstOffending(decl) IN
                  /\ IsOtherMethod(decl[k]) => Failed(UnexpectedMethod)
                  /\ IsOtherItem(decl[k]) => Failed(UnexpectedItem)

C3_Witness ==
    /\ Done /\ Failed(UnexpectedMethod)
    /\ Len(properties) >= 1 /\ set # 0
    /\ IsOtherMethod(decl[FirstOffending(decl)])

----------------------------------------------------------------------------
(* C5 *)

\* The property constants of the declaration without a skip attribute.
NotSkipped(it) == IsConst(it) /\ ~HasAttr(it, "skip")

\* s is ident with every "_" turned into "-" and every letter in lower case.
IsArgNameOf(s, ident) ==
    /\ Len(s) = Len(ident)
    /\ \A k \in DOMAIN ident :
         /\ ident[k] = "_" => s[k] = "-"
         /\ ident[k] \in UpperChars => (s[k] \notin UpperChars /\ ToLowerChar(ident[k]) = s[k])
         /\ (ident[k] # "_" /\ ident[k] \notin UpperChars) => s[k] = ident[k]

\* C5: in a successful expansion a setter is generated iff the declaration
\* has no method named set; the generated setter has one statement for each
\* property without skip, in declaration order, whose string is the
\* identifier with "_" replaced by "-" and lowercased; an explicit set is the
\* declaration's own method and no statement is generated.
C5_SetSynthesis ==
    (Done /\ result.status = "ok") =>
        LET out == result.out.set
            ns  == SelectSeq(decl, NotSkipped)
        IN  /\ (out.explicit = 0) <=> (Count(decl, IsSet) = 0)
            /\ out.explicit # 0 => (IsSet(decl[out.explicit]) /\ out.sets = <<>>)
            /\ out.explicit = 0 =>
                 /\ Len(out.sets) = Len(ns)
                 /\ \A j \in DOMAIN ns :
                      /\ out.sets[j].key = ns[j].ident
                      /\ IsArgNameOf(out.sets[j].string, ns[j].ident)

C5_Witness ==
    /\ Done /\ result.status = "ok" /\ result.out.set.explicit = 0
    /\ Len(properties) = 2 /\ Len(result.out.set.sets) = 1
    /\ properties[1].skip
    /\ result.out.set.sets[1].string = <<"t", "o", "p", "-", "-", "e", "-">>

----------------------------------------------------------------------------
(* C7 *)

\* C7: a declaration with two methods named construct, or two named set, is
\* rejected with an error.
C7_DuplicateRejected ==
    (Done /\ (Count(decl, IsConstruct) > 1 \/ Count(decl, IsSet) > 1))
        => result.status = "err"

----------------------------------------------------------------------------
(* C8 *)

\* The fold argument of the last fold attribute of an item.
LastFold(it) ==
    LET S == { a \in DOMAIN it.attrs : it.attrs[a].path = "fold" } IN
    it.attrs[CHOOSE a \in S : \A b \in S : b <= a].arg

\* C8: for every processed property either a fold attribute was declared,
\* the key has the fold override calling the declared combinator and no
\* Nonfolding implementation; or no fold was declared, there is no override
\* and Nonfolding is implemented. Only the presence of fold decides.
C8_FoldOrNonfolding ==
    LET consts == SelectSeq(decl, IsConst) IN
    \A j \in DOMAIN key_modules :
        LET it == consts[j]
            m  == key_modules[j]
        IN  /\ m.module_name = it.ident
            /\ HasAttr(it, "fold") => (m.folder = LastFold(it) /\ m.folder # "" /\ ~m.nonfolding)
            /\ ~HasAttr(it, "fold") => (m.folder = "" /\ m.nonfolding)

C8_Witness ==
    /\ Done /\ result.status = "ok"
    /\ \E j \in DOMAIN result.out.key_modules :
         result.out.key_modules[j].folder # "" /\ ~result.out.key_modules[j].nonfolding
    /\ \E j \in DOMAIN result.out.key_modules :
         result.out.key_modules[j].nonfolding

----------------------------------------------------------------------------
(* C10 *)

AttrError(e) == e \in {MalformedFold, ConflictingAttributes}

\* The error of an offending item.
ErrorOf(it) ==
    IF IsOtherItem(it) THEN UnexpectedItem
    ELSE IF IsOtherMethod(it) THEN UnexpectedMethod
    ELSE IF HasMalformedFold(it) THEN MalformedFold
    ELSE ConflictingAttributes

\* C10 as claimed: an attribute-processing failure aborts only the failing
\* property's expansion: the keys of the declaration's other processed
\* properties are still in the output.
C10_Claimed ==
    (Done /\ result.status = "err" /\ AttrError(result.err))
        => Len(result.out.key_modules) = Len(key_modules)

\* C10 amended: every failure, attribute-processing or parser-level, aborts
\* the expansion of the whole declaration: the output holds the error and no
\* key namespace at all; the error is MalformedSelfType if the self type is
\* no path, else that of the first offending item in declaration order (a
\* malformed fold argument before ConflictingAttributes within one
\* property), else MissingConstructor.
C10_Amended ==
    (Done /\ result.status = "err") =>
        /\ result.out = NoOutput
        /\ LET k == FirstOffending(decl) IN
             result.err = IF ~PathSelf THEN MalformedSelfType
                          ELSE IF k # 0 THEN ErrorOf(decl[k])
                          ELSE MissingConstructor

C10_Witness ==
    /\ Done /\ Failed(ConflictingAttributes)
    /\ Len(key_modules) >= 1
    /\ result.out.key_modules = <<>>

----------------------------------------------------------------------------
(* C4 *)

KeysGenerated == key_paths[1] # <<>> /\ key_paths[2] # <<>> /\ key_paths[1] # <<"off">>

\* C4 as claimed: two distinct (owner type, property identifier) pairs always
\* get different key namespace paths.
C4_Claimed ==
    (KeysGenerated /\ << owners[1], idents[1] >> # << owners[2], idents[2] >>)
        => key_paths[1] # key_paths[2]

\* C4 amended: two pairs get different key namespace paths exactly when the
\* owners' type names (last path segment) differ or the property identifiers
\* differ; owners that differ only in path prefix or generic arguments share
\* the wrapper namespace `<name>_types`.
C4_Amended ==
    KeysGenerated =>
        /\ (key_paths[1] # key_paths[2]) <=>
              (Last(owners[1].segments) # Last(owners[2].segments) \/ idents[1] # idents[2])
        /\ (key_paths[1][1] = key_paths[2][1]) <=>
              (Last(owners[1].segments) = Last(owners[2].segments))

C4_Witness ==
    /\ KeysGenerated
    /\ owners[1] # owners[2]
    /\ Last(owners[1].segments) # Last(owners[2].segments)
    /\ idents[1] = idents[2]
    /\ key_paths[1] # key_paths[2]

----------------------------------------------------------------------------
(* C6 *)

\* The property of the j-th statement of the setter.
StatementProperty(j) == LET on(p) == ~p.skip IN SelectSeq(sprops, on)[j]

IsPrefix(a, b) == Len(a) <= Len(b) /\ SubSeq(b, 1, Len(a)) = a

\* What one statement for property p does to the arguments and the style
\* map, from e (both at its entry) to a and s.
StatementOutcome(p, e, a, s) ==
    LET names == { k \in DOMAIN e.args : ~IsPositional(e.args[k])
                                          /\ IsArgNameOf(e.args[k].name, p.name) }
        pos   == SelectSeq(e.args, IsPositional)
        typed == { k \in DOMAIN pos : Castable(pos[k]) }
        store(v, l) == s = Append(e.styles, [key |-> p.name, value |-> v, list |-> l])
    IN  IF names # {}
        THEN /\ \E k \in names : (\A j \in names : j <= k) /\ store(<< e.args[k].v >>, FALSE)
             /\ SelectSeq(a, IsPositional) = pos
        ELSE IF p.variadic
        THEN IF pos # <<>> THEN store(Values(pos), TRUE) ELSE s = e.styles
        ELSE IF p.shorthand
        THEN IF typed # {}
             THEN \E k \in typed : (\A j \in typed : k <= j) /\ store(<< pos[k].v >>, FALSE)
             ELSE s = e.styles
        ELSE s = e.styles /\ a = e.args

\* C6: each statement of the generated setter stores the named argument of
\* the derived name if there is one, leaving positional arguments alone;
\* else, for a variadic property, the list of all positional arguments if it
\* is non-empty; else, for a shorthand property, the first positional
\* argument of the value type; else nothing. The setter only appends to the
\* style map and fails only in the named lookup.
C6_SetterBehaviour ==
    /\ (spc \in {"statement", "ok"} /\ sidx > 1)
          => StatementOutcome(StatementProperty(sidx - 1), entry, args, styles)
    /\ spc # "off" => IsPrefix(entry.styles, styles)
    /\ spc = "failed"
          => \E k \in DOMAIN entry.args :
                /\ IsArgNameOf(entry.args[k].name, StatementProperty(sidx).name)
                /\ ~Castable(entry.args[k])
    /\ spc = "ok" => sidx = Len(sets) + 1

C6_Witness ==
    /\ spc = "ok" /\ sidx > 1
    /\ StatementProperty(sidx - 1).variadic
    /\ styles # <<>>
    /\ styles[Len(styles)].list /\ Len(styles[Len(styles)].value) = 2
    /\ Len(styles) = 2

----------------------------------------------------------------------------
(* C9 *)

\* C9: under every interleaving of default_ref() calls the default
\* expression is evaluated for the cached instance at most once, every call
\* that returns yields that one instance, and a call made once the instance
\* exists never blocks; default() evaluates the expression on every call,
\* building a new instance each time.
C9_DefaultRefOnce ==
    /\ ref_evals <= 1
    /\ Cardinality(refs) <= 1
    /\ refs # {} => (lazy.state = "init" /\ refs = { lazy.value })
    /\ \A t \in DOMAIN th :
         th[t].after_init => (~th[t].waited /\ th[t].pc \in {"idle", "force"})
    /\ \A i, j \in DOMAIN defaults : i # j => defaults[i] # defaults[j]
    /\ \A i \in DOMAIN defaults : defaults[i] \notin refs
    /\ instances = Len(defaults) + Cardinality(refs)

C9_Witness ==
    /\ lazy.state = "init"
    /\ \A t \in DOMAIN th : th[t].pc = "idle" /\ th[t].calls >= 2
    /\ \E t \in DOMAIN th : th[t].waited
    /\ \E t \in DOMAIN th : th[t].after_init
    /\ Len(defaults) >= 1
    /\ refs = { lazy.value }

====
